---- MODULE Spec2Model ----
(***************************************************************************)
(* The test-fixture MQTT broker of tools/mqtt_broker.py: the remaining-    *)
(* length and string codecs, read_packet, the handle_client coroutine and  *)
(* the listener of run_server, with the client side of each connection     *)
(* (bytes arriving in chunks, end of stream, connection reset) as the      *)
(* environment.  Bytes are integers 0..255, byte strings are sequences.    *)
(***************************************************************************)
EXTENDS Integers, Sequences, FiniteSets, TLC

VARIABLES
    listener,   \* run_server: "none" | "starting" | "serving" | "failed"
    client,     \* per connection: the bytes the peer will send, and how many it has sent
    reader,     \* per connection: asyncio.StreamReader (buffer, eof, exception)
    writer,     \* per connection: asyncio.StreamWriter (bytes written, close() calls)
    task,       \* per connection: the handle_client coroutine (position and locals)
    proc,       \* the process: sys.argv, position in main(), stderr, exit code
    codec       \* a codec function applied to one input, and the decoding of its result

vars == <<listener, client, reader, writer, task, proc, codec>>

\* Number of connection slots of the model.
NumConns == 2

Conns == 1..NumConns

----------------------------------------------------------------------------
(* Integer operators of Python used by the source: &, |, >>, <<.           *)

RECURSIVE BitAnd(_, _)
BitAnd(a, b) ==
    IF a = 0 \/ b = 0 THEN 0
    ELSE (a % 2) * (b % 2) + 2 * BitAnd(a \div 2, b \div 2)

RECURSIVE BitOr(_, _)
BitOr(a, b) ==
    IF a = 0 THEN b
    ELSE IF b = 0 THEN a
    ELSE (IF (a % 2) + (b % 2) > 0 THEN 1 ELSE 0) + 2 * BitOr(a \div 2, b \div 2)

ShiftRight(v, n) == v \div (2 ^ n)

ShiftLeft(v, n) == v * (2 ^ n)

----------------------------------------------------------------------------
(* Module constants and codecs.                                            *)

\* "robotick/integration/topic" as code points
TEST_TOPIC ==
    <<114, 111, 98, 111, 116, 105, 99, 107, 47, 105, 110, 116, 101, 103, 114,
      97, 116, 105, 111, 110, 47, 116, 111, 112, 105, 99>>

\* "welcome from broker" as code points
BROKER_MESSAGE ==
    <<119, 101, 108, 99, 111, 109, 101, 32, 102, 114, 111, 109, 32, 98, 114,
      111, 107, 101, 114>>

\* UTF-8 encoding of one code point
Utf8(cp) ==
    IF cp < 128 THEN <<cp>>
    ELSE IF cp < 2048 THEN <<192 + (cp \div 64), 128 + (cp % 64)>>
    ELSE IF cp < 65536 THEN
        <<224 + (cp \div 4096), 128 + ((cp \div 64) % 64), 128 + (cp % 64)>>
    ELSE
        <<240 + (cp \div 262144), 128 + ((cp \div 4096) % 64),
          128 + ((cp \div 64) % 64), 128 + (cp % 64)>>

\* text.encode("utf-8"): the encodings of the code points, concatenated
RECURSIVE EncodeUtf8(_)
EncodeUtf8(text) ==
    IF text = <<>> THEN <<>>
    ELSE IF Len(text) = 1 THEN Utf8(text[1])
    ELSE LET half == Len(text) \div 2
         IN  EncodeUtf8(SubSeq(text, 1, half)) \o
             EncodeUtf8(SubSeq(text, half + 1, Len(text)))

\* A mutation of encode_string: the prefix counts characters, not bytes.
encode_string_CharCount(text) ==
    LET data == EncodeUtf8(text)
        length == Len(text)
    IN  <<ShiftRight(length, 8), BitAnd(length, 255)>> \o data

\* A mutation of encode_string: the length prefix least-significant byte first.
encode_string_LittleEndian(text) ==
    LET data == EncodeUtf8(text)
        length == Len(data)
    IN  <<BitAnd(length, 255), ShiftRight(length, 8)>> \o data

encode_string(text) ==
    LET data == EncodeUtf8(text)
        length == Len(data)
    IN  <<ShiftRight(length, 8), BitAnd(length, 255)>> \o data

\* A mutation of encode_remaining_length: the value is shifted by 8 bits a byte.
RECURSIVE encode_remaining_length_Shift8(_)
encode_remaining_length_Shift8(value) ==
    LET byte == BitAnd(value, 127)
        rest == ShiftRight(value, 8)
    IN  IF rest > 0
        THEN <<BitOr(byte, 128)>> \o encode_remaining_length_Shift8(rest)
        ELSE <<byte>>

\* A mutation of encode_remaining_length: the continuation bit also on the
\* last byte.
RECURSIVE encode_remaining_length_AlwaysContinue(_)
encode_remaining_length_AlwaysContinue(value) ==
    LET byte == BitAnd(value, 127)
        rest == ShiftRight(value, 7)
    IN  IF rest > 0
        THEN <<BitOr(byte, 128)>> \o encode_remaining_length_AlwaysContinue(rest)
        ELSE <<BitOr(byte, 128)>>

RECURSIVE encode_remaining_length(_)
encode_remaining_length(value) ==
    LET byte == BitAnd(value, 127)
        rest == ShiftRight(value, 7)
    IN  IF rest > 0
        THEN <<BitOr(byte, 128)>> \o encode_remaining_length(rest)
        ELSE <<byte>>

----------------------------------------------------------------------------
(* The frames the broker writes.                                           *)

CONNACK == <<32, 2, 0, 0>>

\* A mutation of the packet id extraction: the two bytes in the wrong order.
PacketId_Swapped(payload) == BitOr(ShiftLeft(payload[2], 8), payload[1])

\* packet_id = (payload[0] << 8) | payload[1]
PacketId(payload) == BitOr(ShiftLeft(payload[1], 8), payload[2])

SUBACK(packet_id) ==
    <<144, 3, ShiftRight(packet_id, 8), BitAnd(packet_id, 255), 0>>

PUBLISH ==
    LET topic_bytes == encode_string(TEST_TOPIC)
        payload_bytes == EncodeUtf8(BROKER_MESSAGE)
        remaining == Len(topic_bytes) + Len(payload_bytes)
    IN  <<48>> \o encode_remaining_length(remaining) \o topic_bytes \o payload_bytes

\* A mutation of the CONNECT check: every frame type is accepted.
IsConnect_Any(header) == TRUE

\* A mutation of the CONNECT check: the flag nibble is compared too.
IsConnect_ExactHeader(header) == header = 16

\* (header & 0xF0) != 0x10 raises
IsConnect(header) == BitAnd(header, 240) = 16

\* A mutation of the SUBSCRIBE check: every frame type is accepted.
IsSubscribe_Any(header) == TRUE

\* (header & 0xF0) != 0x80 raises
IsSubscribe(header) == BitAnd(header, 240) = 128

\* A mutation of the except clause: IncompleteReadError is not caught.
Caught_RuntimeErrorOnly(e) == e = "RuntimeError"

\* except (asyncio.IncompleteReadError, RuntimeError): pass
Caught(e) == e \in {"IncompleteReadError", "RuntimeError"}

----------------------------------------------------------------------------
(* The client side: the byte sequences a peer may send.                    *)

\* header byte, remaining length, payload
Frame(header, payload) ==
    <<header>> \o encode_remaining_length(Len(payload)) \o payload

Scripts ==
    { \* the handshake of the test scenario: CONNECT, SUBSCRIBE id 0x0007, PUBLISH
      \* and a DISCONNECT after it
      Frame(16, <<>>) \o Frame(128, <<0, 7>>) \o Frame(48, <<>>) \o Frame(224, <<>>),
      \* flag nibbles set, payloads present, id 0xFFFE, last frame a PINGREQ
      Frame(31, <<170>>) \o Frame(130, <<255, 254, 85>>) \o Frame(192, <<>>),
      \* id 0x0100, last frame with a two-byte remaining length (0x80 0x00)
      Frame(16, <<>>) \o Frame(128, <<1, 0>>) \o <<48, 128, 0>>,
      \* SUBSCRIBE where CONNECT is expected
      Frame(128, <<0, 7>>),
      \* PUBLISH where SUBSCRIBE is expected
      Frame(16, <<>>) \o Frame(48, <<0, 7>>),
      \* a second CONNECT where SUBSCRIBE is expected
      Frame(16, <<>>) \o Frame(16, <<>>),
      \* SUBSCRIBE with an empty payload
      Frame(16, <<>>) \o Frame(128, <<>>),
      \* SUBSCRIBE with a one-byte payload
      Frame(16, <<>>) \o Frame(128, <<5>>) }

----------------------------------------------------------------------------
(* State of a connection.                                                  *)

IdleClient == [script |-> <<>>, sent |-> 0]

NewReader == [buffer |-> <<>>, eof |-> FALSE, exception |-> "none"]

NewWriter == [out |-> <<>>, closes |-> 0]

IdleTask ==
    [pc |-> "idle", rp |-> "none", first |-> 0, multiplier |-> 1, remaining |-> 0,
     header |-> 0, payload |-> <<>>, frames |-> <<>>, raised |-> "none",
     escaped |-> "none"]

\* No codec call in progress.
IdleCodec ==
    [op |-> "none", phase |-> "idle", value |-> 0, text |-> <<>>, bytes |-> <<>>,
     pos |-> 0, multiplier |-> 1, remaining |-> 0, result |-> <<>>]

\* sys.argv of a regular start: the script name and a port, each a sequence of
\* characters.
GoodArgv == <<<<"m", "q", "t", "t">>, <<"1", "8", "8", "3">>>>

\* The process inside asyncio.run(run_server(port)).
RunningProc == [argv |-> GoodArgv, pc |-> "run_server", port |-> 1883,
                stderr |-> "", exit |-> -1]

NoConnections ==
    /\ client = [c \in Conns |-> IdleClient]
    /\ reader = [c \in Conns |-> NewReader]
    /\ writer = [c \in Conns |-> NewWriter]
    /\ task = [c \in Conns |-> IdleTask]

Init ==
    /\ listener = "starting"
    /\ NoConnections
    /\ proc = RunningProc
    /\ codec = IdleCodec

Reading == {"AWAIT_CONNECT", "AWAIT_SUBSCRIBE", "AWAIT_CLIENT_PUBLISH"}

Open(c) == task[c].pc \notin {"idle", "closing", "CLOSED"}

----------------------------------------------------------------------------
(* Listener.                                                               *)

\* server = await asyncio.start_server(...); await server.serve_forever()
StartServer ==
    /\ listener = "starting"
    /\ proc.port \in 0..65535
    /\ listener' = "serving"
    /\ UNCHANGED <<proc, codec, client, reader, writer, task>>

\* A connection is accepted and handle_client(reader, writer) is started for it.
\* Connections are numbered in the order they are accepted.
Accept(c, scripts) ==
    /\ listener = "serving"
    /\ task[c].pc = "idle"
    /\ \A d \in Conns : d < c => task[d].pc # "idle"
    /\ \E s \in scripts : client' = [client EXCEPT ![c] = [script |-> s, sent |-> 0]]
    /\ task' = [task EXCEPT ![c] = [@ EXCEPT !.pc = "AWAIT_CONNECT", !.rp = "first"]]
    /\ UNCHANGED <<proc, codec, listener, reader, writer>>

----------------------------------------------------------------------------
(* Environment: the peer of a connection.                                  *)

\* The bytes the peer has not sent yet.
Unsent(c) == Len(client[c].script) - client[c].sent

\* Sizes of the next arrival: any split of the script.
AnyChunk(c) == 1..Unsent(c)

\* The next n bytes of the peer arrive (StreamReader.feed_data).
ClientSend(c, sizes) ==
    /\ Open(c)
    /\ ~reader[c].eof
    /\ reader[c].exception = "none"
    /\ \E n \in sizes :
        /\ reader' = [reader EXCEPT ![c].buffer =
                @ \o SubSeq(client[c].script, client[c].sent + 1, client[c].sent + n)]
        /\ client' = [client EXCEPT ![c].sent = @ + n]
    /\ UNCHANGED <<proc, codec, listener, writer, task>>

\* The peer closes its side (StreamReader.feed_eof), possibly in mid-frame.
ClientClose(c) ==
    /\ Open(c)
    /\ ~reader[c].eof
    /\ reader[c].exception = "none"
    /\ reader' = [reader EXCEPT ![c].eof = TRUE]
    /\ UNCHANGED <<proc, codec, listener, client, writer, task>>

\* The peer sends its whole script in one piece and closes its side.
ClientSendAll(c) ==
    /\ Open(c)
    /\ ~reader[c].eof
    /\ reader[c].exception = "none"
    /\ reader' = [reader EXCEPT ![c] = [@ EXCEPT !.buffer = client[c].script, !.eof = TRUE]]
    /\ client' = [client EXCEPT ![c].sent = Len(client[c].script)]
    /\ UNCHANGED <<proc, codec, listener, writer, task>>

\* The peer resets the connection (StreamReader.set_exception).
PeerReset(c) ==
    /\ Open(c)
    /\ reader[c].exception = "none"
    /\ reader' = [reader EXCEPT ![c].exception = "ConnectionResetError"]
    /\ UNCHANGED <<proc, codec, listener, client, writer, task>>

----------------------------------------------------------------------------
(* asyncio stream primitives, as the handler sees them.                    *)

\* A mutation of the read: the end of the stream is not noticed, the read goes on
\* waiting for bytes.
readexactly_IgnoresEof(r, n) ==
    IF r.exception # "none" THEN r.exception
    ELSE IF n = 0 \/ Len(r.buffer) >= n THEN "data"
    ELSE "wait"

\* A mutation of the read: it does not wait, bytes that have not arrived yet are
\* taken for the end of the stream.
readexactly_NoWait(r, n) ==
    IF r.exception # "none" THEN r.exception
    ELSE IF n = 0 \/ Len(r.buffer) >= n THEN "data"
    ELSE "IncompleteReadError"

\* A mutation of the read: an end of stream is reported as a RuntimeError.
readexactly_EofAsRuntimeError(r, n) ==
    IF r.exception # "none" THEN r.exception
    ELSE IF n = 0 \/ Len(r.buffer) >= n THEN "data"
    ELSE IF r.eof THEN "RuntimeError"
    ELSE "wait"

\* StreamReader.readexactly(n): "data" when it returns n bytes, the name of the
\* exception when it raises, "wait" while it is suspended.
readexactly(r, n) ==
    IF r.exception # "none" THEN r.exception
    ELSE IF n = 0 \/ Len(r.buffer) >= n THEN "data"
    ELSE IF r.eof THEN "IncompleteReadError"
    ELSE "wait"

\* The reader after readexactly(n) has returned.
Consume(r, n) == [r EXCEPT !.buffer = SubSeq(@, n + 1, Len(@))]

\* The reader after readexactly has raised e (IncompleteReadError clears the buffer).
Failed(r, e) == IF e = "IncompleteReadError" THEN [r EXCEPT !.buffer = <<>>] ELSE r

\* writer.write(data)
Write(w, data) == [w EXCEPT !.out = @ \o data]

\* StreamWriter.drain(): the exception it raises, or "none".
drain(r) == r.exception

----------------------------------------------------------------------------
(* handle_client: leaving the try block.                                   *)

\* A mutation of the finally clause: close() only at the end of the try body.
Close_OnSuccessOnly(w, e) == IF e = "none" THEN [w EXCEPT !.closes = @ + 1] ELSE w

\* finally: writer.close(), whatever was raised
Close(w, e) == [w EXCEPT !.closes = @ + 1]

\* A mutation of the handler: a frame of the wrong type is answered by waiting
\* for a CONNECT again.
Leave_Retry(t, e) ==
    IF e = "RuntimeError"
    THEN [t EXCEPT !.pc = "AWAIT_CONNECT", !.rp = "first"]
    ELSE [t EXCEPT !.pc = "closing", !.rp = "none", !.raised = e]

\* The coroutine leaves the try block with exception e ("none": it ran to the
\* end) and is suspended in await writer.wait_closed().
Leave(t, e) == [t EXCEPT !.pc = "closing", !.rp = "none", !.raised = e]

Finish(c, t, e) ==
    /\ task' = [task EXCEPT ![c] = Leave(t, e)]
    /\ writer' = [writer EXCEPT ![c] = Close(@, e)]

----------------------------------------------------------------------------
(* handle_client: what follows each read_packet.                           *)

OnConnect(c, t, header, payload) ==
    LET t1 == [t EXCEPT !.header = header, !.payload = payload]
    IN  IF ~IsConnect(header)
        THEN Finish(c, t1, "RuntimeError")
        ELSE /\ task' = [task EXCEPT ![c] = [t1 EXCEPT !.pc = "drain_connack", !.rp = "none"]]
             /\ writer' = [writer EXCEPT ![c] = Write(@, CONNACK)]

OnSubscribe(c, t, header, payload) ==
    LET t1 == [t EXCEPT !.header = header, !.payload = payload]
    IN  IF ~IsSubscribe(header)
        THEN Finish(c, t1, "RuntimeError")
        ELSE IF Len(payload) < 2
        THEN Finish(c, t1, "IndexError")
        ELSE /\ task' = [task EXCEPT ![c] = [t1 EXCEPT !.pc = "drain_suback", !.rp = "none"]]
             /\ writer' = [writer EXCEPT ![c] = Write(@, SUBACK(PacketId(payload)))]

\* A mutation of the last step: the handler keeps reading client frames.
OnClientPublish_ReadAgain(c, t) ==
    /\ task' = [task EXCEPT ![c] = [t EXCEPT !.pc = "AWAIT_CLIENT_PUBLISH", !.rp = "first"]]
    /\ UNCHANGED writer

\* await read_packet(reader)  # client publish: the frame is dropped
OnClientPublish(c, t) == Finish(c, t, "none")

----------------------------------------------------------------------------
(* read_packet, one action per readexactly, each followed by the code up to *)
(* the next await.                                                         *)

\* first = await reader.readexactly(1)
ReadFirst(c) ==
    LET t == task[c]
        r == reader[c]
    IN  /\ t.pc \in Reading /\ t.rp = "first"
        /\ readexactly(r, 1) = "data"
        /\ reader' = [reader EXCEPT ![c] = Consume(r, 1)]
        /\ task' = [task EXCEPT ![c] =
                [t EXCEPT !.first = r.buffer[1], !.multiplier = 1, !.remaining = 0,
                          !.rp = "varint"]]
        /\ UNCHANGED <<proc, codec, listener, client, writer>>

\* A mutation of the decoding loop: the multiplier is left out.
AddLengthByte_NoMultiplier(remaining, multiplier, byte_value) ==
    remaining + BitAnd(byte_value, 127)

\* remaining += (byte_value & 0x7F) * multiplier
AddLengthByte(remaining, multiplier, byte_value) ==
    remaining + BitAnd(byte_value, 127) * multiplier

\* if (byte_value & 0x80) == 0: break
LastLengthByte(byte_value) == BitAnd(byte_value, 128) = 0

\* byte = await reader.readexactly(1), in the loop decoding the remaining length
ReadLengthByte(c) ==
    LET t == task[c]
        r == reader[c]
        byte_value == r.buffer[1]
        remaining == AddLengthByte(t.remaining, t.multiplier, byte_value)
    IN  /\ t.pc \in Reading /\ t.rp = "varint"
        /\ readexactly(r, 1) = "data"
        /\ reader' = [reader EXCEPT ![c] = Consume(r, 1)]
        /\ task' = [task EXCEPT ![c] =
                IF LastLengthByte(byte_value)
                THEN [t EXCEPT !.remaining = remaining, !.rp = "payload"]
                ELSE [t EXCEPT !.remaining = remaining, !.multiplier = @ * 128]]
        /\ UNCHANGED <<proc, codec, listener, client, writer>>

\* payload = await reader.readexactly(remaining); return first[0], payload
ReadPayload(c) ==
    LET t == task[c]
        r == reader[c]
        payload == SubSeq(r.buffer, 1, t.remaining)
        got == [t EXCEPT !.frames = Append(@, [header |-> t.first, payload |-> payload])]
    IN  /\ t.pc \in Reading /\ t.rp = "payload"
        /\ readexactly(r, t.remaining) = "data"
        /\ reader' = [reader EXCEPT ![c] = Consume(r, t.remaining)]
        /\ CASE t.pc = "AWAIT_CONNECT" -> OnConnect(c, got, t.first, payload)
             [] t.pc = "AWAIT_SUBSCRIBE" -> OnSubscribe(c, got, t.first, payload)
             [] t.pc = "AWAIT_CLIENT_PUBLISH" -> OnClientPublish(c, got)
        /\ UNCHANGED <<proc, codec, listener, client>>

\* The number of bytes the pending readexactly asks for.
Wanted(t) == IF t.rp = "payload" THEN t.remaining ELSE 1

\* A readexactly of read_packet raises: end of stream before the bytes asked
\* for, or the exception set on the reader.
ReadFails(c) ==
    LET t == task[c]
        r == reader[c]
        e == readexactly(r, Wanted(t))
    IN  /\ t.pc \in Reading
        /\ e \notin {"data", "wait"}
        /\ reader' = [reader EXCEPT ![c] = Failed(r, e)]
        /\ Finish(c, t, e)
        /\ UNCHANGED <<proc, codec, listener, client>>

----------------------------------------------------------------------------
(* handle_client: the awaits on writer.drain().                            *)

\* await writer.drain() after CONNACK
DrainConnack(c) ==
    /\ task[c].pc = "drain_connack"
    /\ drain(reader[c]) = "none"
    /\ task' = [task EXCEPT ![c] = [@ EXCEPT !.pc = "AWAIT_SUBSCRIBE", !.rp = "first"]]
    /\ UNCHANGED <<proc, codec, listener, client, reader, writer>>

\* A mutation of the step after SUBACK: the PUBLISH is written to the writer of
\* every open connection, as a broker with a shared subscriber list would.
DrainSuback_Broadcast(c) ==
    /\ task[c].pc = "drain_suback"
    /\ drain(reader[c]) = "none"
    /\ writer' = [d \in Conns |-> IF d = c \/ Open(d) THEN Write(writer[d], PUBLISH)
                                  ELSE writer[d]]
    /\ task' = [task EXCEPT ![c] = [@ EXCEPT !.pc = "PUBLISHING"]]
    /\ UNCHANGED <<proc, codec, listener, client, reader>>

\* await writer.drain() after SUBACK, then the PUBLISH frame is written
DrainSuback(c) ==
    /\ task[c].pc = "drain_suback"
    /\ drain(reader[c]) = "none"
    /\ writer' = [writer EXCEPT ![c] = Write(@, PUBLISH)]
    /\ task' = [task EXCEPT ![c] = [@ EXCEPT !.pc = "PUBLISHING"]]
    /\ UNCHANGED <<proc, codec, listener, client, reader>>

\* await writer.drain() after PUBLISH
DrainPublish(c) ==
    /\ task[c].pc = "PUBLISHING"
    /\ drain(reader[c]) = "none"
    /\ task' = [task EXCEPT ![c] = [@ EXCEPT !.pc = "AWAIT_CLIENT_PUBLISH", !.rp = "first"]]
    /\ UNCHANGED <<proc, codec, listener, client, reader, writer>>

\* writer.drain() raises the exception set on the stream
DrainFails(c) ==
    /\ task[c].pc \in {"drain_connack", "drain_suback", "PUBLISHING"}
    /\ drain(reader[c]) # "none"
    /\ Finish(c, task[c], drain(reader[c]))
    /\ UNCHANGED <<proc, codec, listener, client, reader>>

\* The exception that leaves handle_client: the one raised in the try block if
\* the except clause does not catch it, else the one wait_closed raises.
Escapes(t, r) ==
    IF t.raised # "none" /\ ~Caught(t.raised) THEN t.raised ELSE r.exception

\* await writer.wait_closed() returns or raises, and the coroutine ends
WaitClosed(c) ==
    /\ task[c].pc = "closing"
    /\ task' = [task EXCEPT ![c] =
            [@ EXCEPT !.pc = "CLOSED", !.escaped = Escapes(task[c], reader[c])]]
    /\ UNCHANGED <<proc, codec, listener, client, reader, writer>>

----------------------------------------------------------------------------
(* Specifications.                                                         *)

Handler(c) ==
    \/ ReadFirst(c)
    \/ ReadLengthByte(c)
    \/ ReadPayload(c)
    \/ ReadFails(c)
    \/ DrainConnack(c)
    \/ DrainSuback(c)
    \/ DrainPublish(c)
    \/ DrainFails(c)
    \/ WaitClosed(c)

\* One connection, with every client script, chunking, end of stream and reset.
Next ==
    \/ StartServer
    \/ Accept(1, Scripts)
    \/ ClientSend(1, AnyChunk(1))
    \/ ClientClose(1)
    \/ PeerReset(1)
    \/ Handler(1)

Spec == Init /\ [][Next]_vars

\* The listener with several connections at a time, their handlers interleaved;
\* each peer sends its bytes in one piece and closes its side, or resets the
\* connection at any moment.
ServerScripts ==
    { Frame(16, <<>>) \o Frame(128, <<0, 7>>) \o Frame(48, <<>>),
      \* nothing at all
      <<>>,
      \* a CONNECT cut after its header byte
      <<16>>,
      \* SUBSCRIBE where CONNECT is expected
      Frame(128, <<0, 7>>) }

NextServer ==
    \/ StartServer
    \/ \E c \in Conns :
        \/ Accept(c, ServerScripts)
        \/ ClientSendAll(c)
        \/ PeerReset(c)
        \/ Handler(c)

ServerSpec == Init /\ [][NextServer]_vars

----------------------------------------------------------------------------
(* Vocabulary of the properties.                                           *)

\* The control type of a header byte: its high nibble.
ControlType(header) == header \div 16

\* The state of the handshake state machine a position of the coroutine is in.
State(pc) ==
    CASE pc = "idle" -> "NOT_ACCEPTED"
      [] pc = "AWAIT_CONNECT" -> "AWAIT_CONNECT"
      [] pc \in {"drain_connack", "AWAIT_SUBSCRIBE"} -> "AWAIT_SUBSCRIBE"
      [] pc \in {"drain_suback", "PUBLISHING"} -> "PUBLISHING"
      [] pc = "AWAIT_CLIENT_PUBLISH" -> "AWAIT_CLIENT_PUBLISH"
      [] pc = "closing" -> "DONE"
      [] pc = "CLOSED" -> "CLOSED"

StateOrder ==
    <<"NOT_ACCEPTED", "AWAIT_CONNECT", "AWAIT_SUBSCRIBE", "PUBLISHING",
      "AWAIT_CLIENT_PUBLISH", "DONE", "CLOSED">>

Rank(pc) == CHOOSE i \in 1..Len(StateOrder) : StateOrder[i] = State(pc)

IsPrefix(a, b) == Len(a) <= Len(b) /\ a = SubSeq(b, 1, Len(a))

\* The header bytes of the frames in a written byte string (every frame written
\* has a one-byte remaining length); -1 stands for bytes that are no whole frame.
RECURSIVE WrittenHeaders(_)
WrittenHeaders(o) ==
    IF o = <<>> THEN <<>>
    ELSE IF Len(o) < 2 \/ o[2] > 127 \/ Len(o) < 2 + o[2] THEN <<-1>>
    ELSE <<o[1]>> \o WrittenHeaders(SubSeq(o, 3 + o[2], Len(o)))

\* The bytes written after the first n.
OutFrom(c, n) == SubSeq(writer[c].out, n + 1, Len(writer[c].out))

----------------------------------------------------------------------------
(* C1: once the first frame read is a CONNECT (control type 1) the bytes    *)
(* written start with exactly 20 02 00 00, and once the second frame read  *)
(* is a SUBSCRIBE (control type 8) whose payload starts with the packet id *)
(* p big-endian, the next five bytes written are 90 03 p_hi p_lo 00.       *)
C1_HandshakeEcho ==
    \A c \in Conns :
        LET f == task[c].frames
            out == writer[c].out
        IN  /\ (Len(f) >= 1 /\ ControlType(f[1].header) = 1) =>
                (Len(out) >= 4 /\ SubSeq(out, 1, 4) = <<32, 2, 0, 0>>)
            /\ (Len(f) >= 2 /\ ControlType(f[2].header) = 8 /\ Len(f[2].payload) >= 2) =>
                LET p == f[2].payload[1] * 256 + f[2].payload[2]
                IN  /\ Len(out) >= 9
                    /\ SubSeq(out, 5, 9) = <<144, 3, p \div 256, p % 256, 0>>

\* A SUBSCRIBE with packet id 0xFFFE has been acknowledged.
C1_Witness ==
    \E c \in Conns :
        /\ Len(task[c].frames) >= 2
        /\ task[c].frames[2].payload = <<255, 254, 85>>
        /\ SubSeq(writer[c].out, 1, 9) = <<32, 2, 0, 0, 144, 3, 255, 254, 0>>

(* C2 as stated: the PUBLISH frame is 30 2F, then the length prefix 00 1B    *)
(* (27), the topic in 27 bytes and the message in 20 bytes.                *)
C2_AsStated ==
    \A c \in Conns :
        Len(writer[c].out) > 9 =>
            LET pub == OutFrom(c, 9)
            IN  /\ SubSeq(pub, 1, 4) = <<48, 47, 0, 27>>
                /\ Len(EncodeUtf8(TEST_TOPIC)) = 27
                /\ Len(EncodeUtf8(BROKER_MESSAGE)) = 20
                /\ pub = <<48, 47, 0, 27>> \o EncodeUtf8(TEST_TOPIC)
                            \o EncodeUtf8(BROKER_MESSAGE)

(* C2, amended: after the SUBACK exactly one PUBLISH frame is written:      *)
(* 30 2F, then the length prefix 00 1A (26, the byte length of the topic), *)
(* the 26 bytes of the topic and the 19 bytes of the message; the          *)
(* remaining length 47 is the byte count 2 + 26 + 19 of that payload.      *)
C2_PublishFrame ==
    \A c \in Conns :
        Len(writer[c].out) > 9 =>
            LET pub == OutFrom(c, 9)
            IN  /\ pub = <<48, 47, 0, 26>> \o EncodeUtf8(TEST_TOPIC)
                            \o EncodeUtf8(BROKER_MESSAGE)
                /\ Len(EncodeUtf8(TEST_TOPIC)) = 26
                /\ Len(EncodeUtf8(BROKER_MESSAGE)) = 19
                /\ Len(pub) - 2 = 47
                /\ pub[2] = 2 + 26 + 19

\* The PUBLISH frame has been written and flushed.
C2_Witness ==
    \E c \in Conns :
        /\ task[c].pc = "AWAIT_CLIENT_PUBLISH"
        /\ Len(writer[c].out) = 58

(* C3: the frames a handler has written are always a prefix of CONNACK,     *)
(* SUBACK, PUBLISH; CONNACK is written only once a CONNECT has been read,  *)
(* SUBACK only once a SUBSCRIBE has been read after it; the state never    *)
(* moves backwards; once close() is requested nothing more is read or      *)
(* written, and CLOSED is never left.                                      *)
C3_Step(c) ==
    LET headers == WrittenHeaders(writer'[c].out)
        f == task'[c].frames
    IN  /\ IsPrefix(headers, <<32, 144, 48>>)
        /\ Len(headers) >= 1 => (Len(f) >= 1 /\ ControlType(f[1].header) = 1)
        /\ Len(headers) >= 2 => (Len(f) >= 2 /\ ControlType(f[2].header) = 8)
        /\ Rank(task'[c].pc) >= Rank(task[c].pc)
        /\ task[c].pc \in {"closing", "CLOSED"} =>
                /\ writer'[c] = writer[c]
                /\ reader'[c] = reader[c]
                /\ task'[c].frames = task[c].frames
        /\ task[c].pc = "CLOSED" => task'[c] = task[c]

C3_ForwardOnly == [][\A c \in Conns : C3_Step(c)]_vars

\* A handler has written all three frames and is closed.
C3_Witness ==
    \E c \in Conns :
        /\ task[c].pc = "CLOSED"
        /\ WrittenHeaders(writer[c].out) = <<32, 144, 48>>

(* C4: when the first frame read is not a CONNECT, the handler has left the *)
(* try block with the protocol violation in the same step: close() is      *)
(* requested, nothing was written and no further frame is read.            *)
C4_NoConnack ==
    \A c \in Conns :
        LET f == task[c].frames
        IN  (Len(f) >= 1 /\ ControlType(f[1].header) # 1) =>
                /\ task[c].pc \in {"closing", "CLOSED"}
                /\ task[c].raised = "RuntimeError"
                /\ writer[c].out = <<>>
                /\ writer[c].closes = 1
                /\ Len(f) = 1

\* A SUBSCRIBE arrived where a CONNECT was expected, and the handler is closed.
C4_Witness ==
    \E c \in Conns :
        /\ task[c].pc = "CLOSED"
        /\ task[c].frames = <<[header |-> 128, payload |-> <<0, 7>>]>>

(* C5: when the second frame read is not a SUBSCRIBE, the handler has left  *)
(* the try block with the protocol violation; the bytes written on that    *)
(* connection are the CONNACK and nothing else.                            *)
C5_OnlyConnack ==
    \A c \in Conns :
        LET f == task[c].frames
        IN  (Len(f) >= 2 /\ ControlType(f[2].header) # 8) =>
                /\ task[c].pc \in {"closing", "CLOSED"}
                /\ task[c].raised = "RuntimeError"
                /\ writer[c].out = <<32, 2, 0, 0>>
                /\ Len(f) = 2

\* A PUBLISH with a two-byte payload arrived where a SUBSCRIBE was expected.
C5_Witness ==
    \E c \in Conns :
        /\ task[c].pc = "CLOSED"
        /\ Len(task[c].frames) = 2
        /\ task[c].frames[2] = [header |-> 48, payload |-> <<0, 7>>]

(* C6 as stated: on a connection whose transport reported no error, every   *)
(* failure on a received frame is absorbed: no exception leaves            *)
(* handle_client.                                                          *)
C6_AsStated ==
    \A c \in Conns :
        (task[c].pc = "CLOSED" /\ reader[c].exception = "none") =>
            task[c].escaped = "none"

(* C7 as stated: a transport error (the peer resetting the connection) is   *)
(* absorbed like a protocol mismatch: no exception leaves handle_client.   *)
C7_AsStated ==
    \A c \in Conns :
        (task[c].pc = "CLOSED" /\ reader[c].exception = "ConnectionResetError") =>
            task[c].escaped = "none"

(* C9: close() is requested exactly once on every way out of the handler:   *)
(* never before the handler leaves the try block, once when it does, and   *)
(* a finished handler has a closed stream.                                 *)
C9_ClosedOnce ==
    \A c \in Conns :
        /\ writer[c].closes <= 1
        /\ writer[c].closes = 1 <=> task[c].pc \in {"closing", "CLOSED"}

\* Handlers have finished on an error that is not caught.
C9_Witness ==
    \E c \in Conns :
        /\ task[c].pc = "CLOSED"
        /\ task[c].raised = "IndexError"
        /\ writer[c].closes = 1

(* C10: in AWAIT_CLIENT_PUBLISH, with no transport error, the handler leaves *)
(* on the first frame it reads, whatever its type and content, or on end   *)
(* of stream; either way it has read at most one frame there, written      *)
(* nothing, requested close() and ends CLOSED with no exception and with   *)
(* CONNACK, SUBACK, PUBLISH as everything written.                         *)
C10_Step(c) ==
    LET t == task[c]
        u == task'[c]
    IN  /\ (t.pc = "AWAIT_CLIENT_PUBLISH" /\ reader'[c].exception = "none") =>
            /\ Len(t.frames) = 2
            /\ writer'[c].out = writer[c].out
            /\ WrittenHeaders(writer[c].out) = <<32, 144, 48>>
            /\ Len(u.frames) > Len(t.frames) =>
                (u.pc = "closing" /\ u.raised = "none" /\ Len(u.frames) = 3)
            /\ u.pc # t.pc =>
                /\ u.pc = "closing"
                /\ u.raised \in {"none", "IncompleteReadError"}
                /\ writer'[c].closes = 1
        /\ (t.pc = "closing" /\ u.pc = "CLOSED" /\ reader[c].exception = "none"
                /\ t.raised \in {"none", "IncompleteReadError"}
                /\ Len(t.frames) >= 2 /\ Len(writer[c].out) > 9) =>
            /\ u.escaped = "none"
            /\ WrittenHeaders(writer'[c].out) = <<32, 144, 48>>

C10_ClientPublish == [][\A c \in Conns : C10_Step(c)]_vars

\* The stream ended in the middle of the client's frame in AWAIT_CLIENT_PUBLISH.
C10_Witness ==
    \E c \in Conns :
        /\ task[c].pc = "CLOSED"
        /\ task[c].raised = "IncompleteReadError"
        /\ Len(task[c].frames) = 2
        /\ task[c].first = 48
        /\ Len(writer[c].out) = 58

(* C8: a connection that ends by end of stream (at once, or in mid-frame) or *)
(* by a frame of the wrong type ends without an exception leaving its      *)
(* handler; the listener is still serving and accepts the next connection. *)
C8_ListenerSurvives ==
    \A c \in Conns :
        (/\ task[c].pc = "CLOSED"
         /\ task[c].raised \in {"IncompleteReadError", "RuntimeError"}
         /\ reader[c].exception = "none") =>
            /\ task[c].escaped = "none"
            /\ listener = "serving"
            /\ \A d \in Conns :
                (task[d].pc = "idle" /\ \A e \in Conns : e < d => task[e].pc # "idle")
                    => ENABLED Accept(d, ServerScripts)

\* The first peer closed without sending a byte and its handler has finished; a
\* connection accepted later went through the whole handshake.
C8_Witness ==
    \E c, d \in Conns :
        /\ c < d
        /\ task[c].pc = "CLOSED"
        /\ task[c].frames = <<>>
        /\ task[c].raised = "IncompleteReadError"
        /\ client[c].script = <<>>
        /\ task[d].pc = "CLOSED"
        /\ Len(task[d].frames) = 3
        /\ WrittenHeaders(writer[d].out) = <<32, 144, 48>>

----------------------------------------------------------------------------
(* The codecs on their own: a value is encoded, and the bytes are decoded   *)
(* again, the remaining length by the loop of read_packet.                 *)

\* The largest of the small remaining lengths tried, all of them.
MaxSmallLength == 300

\* Remaining lengths tried: the small ones and the ones around the powers of 128.
LengthValues ==
    (0..MaxSmallLength) \cup
    {16383, 16384, 16385, 65535, 65536, 1000000, 2097150, 2097151}

LengthInput(n) == [IdleCodec EXCEPT !.op = "length", !.phase = "input", !.value = n]

\* The longest of the short texts tried, all of them over TextAlphabet.
MaxTextLen == 2

\* Code points of 1, 2, 3 and 4 UTF-8 bytes: a, e acute, the euro sign, U+1F600.
TextAlphabet == {97, 233, 8364, 128512}

Repeat(x, n) == [i \in 1..n |-> x]

\* Texts tried: the short ones, and long ones of 255, 256, 256 and 300 bytes
\* (length prefixes 00 FF, 01 00, 01 00, 01 2C).
Texts ==
    UNION {[1..n -> TextAlphabet] : n \in 0..MaxTextLen} \cup
    {Repeat(8364, 85), Repeat(128512, 64), Repeat(233, 128), Repeat(8364, 100)}

StringInput(t) == [IdleCodec EXCEPT !.op = "string", !.phase = "input", !.text = t]

\* Bytes that follow the encoded string on the stream.
Trailer == <<0, 99>>

InitCodec ==
    /\ listener = "starting"
    /\ NoConnections
    /\ proc = RunningProc
    /\ codec \in {LengthInput(n) : n \in LengthValues} \cup
                 {StringInput(t) : t \in Texts}

\* encode_remaining_length(value); the decoder starts on its result
\* (multiplier = 1, remaining = 0).
EncodeLength ==
    /\ codec.op = "length" /\ codec.phase = "input"
    /\ codec' = [codec EXCEPT !.bytes = encode_remaining_length(codec.value),
                              !.phase = "decoding", !.pos = 0,
                              !.multiplier = 1, !.remaining = 0]
    /\ UNCHANGED <<listener, client, reader, writer, task, proc>>

\* One turn of the decoding loop of read_packet on the next byte.
DecodeLengthByte ==
    LET byte_value == codec.bytes[codec.pos + 1]
    IN  /\ codec.op = "length" /\ codec.phase = "decoding"
        /\ codec.pos < Len(codec.bytes)
        /\ codec' = [codec EXCEPT
                !.pos = @ + 1,
                !.remaining = AddLengthByte(codec.remaining, codec.multiplier, byte_value),
                !.multiplier = IF LastLengthByte(byte_value) THEN @ ELSE @ * 128,
                !.phase = IF LastLengthByte(byte_value) THEN "decoded" ELSE @]
        /\ UNCHANGED <<listener, client, reader, writer, task, proc>>

\* encode_string(text), written to a stream that goes on with Trailer
EncodeString ==
    /\ codec.op = "string" /\ codec.phase = "input"
    /\ codec' = [codec EXCEPT !.bytes = encode_string(codec.text) \o Trailer,
                              !.phase = "encoded", !.pos = 0]
    /\ UNCHANGED <<listener, client, reader, writer, task, proc>>

\* The number of bytes of the UTF-8 sequence a lead byte starts (0: no lead byte).
Utf8Width(lead) ==
    IF lead < 128 THEN 1
    ELSE IF lead \in 192..223 THEN 2
    ELSE IF lead \in 224..239 THEN 3
    ELSE IF lead \in 240..247 THEN 4
    ELSE 0

\* The code point of the UTF-8 sequence of width w that starts at data[i].
CodePointAt(data, i, w) ==
    LET cont(j) == data[j] % 64
    IN  CASE w = 1 -> data[i]
          [] w = 2 -> (data[i] - 192) * 64 + cont(i + 1)
          [] w = 3 -> (data[i] - 224) * 4096 + cont(i + 1) * 64 + cont(i + 2)
          [] w = 4 -> (data[i] - 240) * 262144 + cont(i + 1) * 4096
                         + cont(i + 2) * 64 + cont(i + 3)

\* The code points of a UTF-8 byte string; <<-1>> where it is not valid UTF-8.
\* A lead byte is one that is no continuation byte (10xxxxxx); every lead byte
\* must be followed by its continuation bytes and then by the next lead byte.
DecodeUtf8(data) ==
    LET leads == {i \in 1..Len(data) : data[i] \notin 128..191}
        valid ==
            /\ data # <<>> => 1 \in leads
            /\ \A i \in leads :
                LET w == Utf8Width(data[i])
                IN  /\ w > 0
                    /\ i + w - 1 <= Len(data)
                    /\ \A j \in (i + 1)..(i + w - 1) : j \notin leads
                    /\ i + w <= Len(data) => (i + w) \in leads
        nth(k) == CHOOSE i \in leads : Cardinality({j \in leads : j < i}) = k - 1
    IN  IF ~valid THEN <<-1>>
        ELSE [k \in 1..Cardinality(leads) |->
                CodePointAt(data, nth(k), Utf8Width(data[nth(k)]))]

\* Decoding of a string: 2 length bytes big-endian, then exactly that many
\* bytes as UTF-8; consumed is the number of bytes read from the stream.
decode_string(stream) ==
    LET length == stream[1] * 256 + stream[2]
    IN  IF Len(stream) < 2 + length
        THEN [text |-> <<-1>>, consumed |-> Len(stream)]
        ELSE [text |-> DecodeUtf8(SubSeq(stream, 3, 2 + length)),
              consumed |-> 2 + length]

DecodeString ==
    /\ codec.op = "string" /\ codec.phase = "encoded"
    /\ codec' = [codec EXCEPT !.result = decode_string(codec.bytes).text,
                              !.pos = decode_string(codec.bytes).consumed,
                              !.phase = "decoded"]
    /\ UNCHANGED <<listener, client, reader, writer, task, proc>>

NextCodec ==
    \/ EncodeLength
    \/ DecodeLengthByte
    \/ EncodeString
    \/ DecodeString

CodecSpec == InitCodec /\ [][NextCodec]_vars

RECURSIVE BitLength(_)
BitLength(n) == IF n = 0 THEN 0 ELSE 1 + BitLength(n \div 2)

(* C11: for n in [0, 2097151], the decoding loop of read_packet run on      *)
(* encode_remaining_length(n) stops after its last byte with n, and the    *)
(* encoding has ceil((bitlength(n) or 1) / 7) bytes.                       *)
C11_VarintRoundTrip ==
    (codec.op = "length" /\ codec.value <= 2097151) =>
        /\ codec.phase \in {"decoding", "decoded"} =>
            LET bits == IF BitLength(codec.value) = 0 THEN 1 ELSE BitLength(codec.value)
            IN  Len(codec.bytes) = (bits + 6) \div 7
        /\ codec.phase = "decoding" => codec.pos < Len(codec.bytes)
        /\ codec.phase = "decoded" =>
            /\ codec.remaining = codec.value
            /\ codec.pos = Len(codec.bytes)

\* 2097151, the largest three-byte value, has been encoded and decoded.
C11_Witness ==
    /\ codec.phase = "decoded"
    /\ codec.value = 2097151
    /\ codec.bytes = <<255, 255, 127>>

(* C12: byte i of the encoding carries bits 7i..7i+6 of the value, least    *)
(* significant group first; the bit 0x80 is set on every byte but the last *)
(* and clear on the last; 0, 127, 128 and 16384 encode as 00, 7F, 80 01    *)
(* and 80 80 01.                                                           *)
C12_VarintBytes ==
    (codec.op = "length" /\ codec.phase \in {"decoding", "decoded"}) =>
        LET b == codec.bytes
            v == codec.value
        IN  /\ Len(b) >= 1
            /\ \A i \in 1..Len(b) :
                /\ b[i] % 128 = (v \div (128 ^ (i - 1))) % 128
                /\ (b[i] \div 128 = 1) <=> (i < Len(b))
                /\ b[i] \in 0..255
            /\ v = 0 => b = <<0>>
            /\ v = 127 => b = <<127>>
            /\ v = 128 => b = <<128, 1>>
            /\ v = 16384 => b = <<128, 128, 1>>

\* 16384 has been encoded.
C12_Witness ==
    /\ codec.op = "length"
    /\ codec.value = 16384
    /\ codec.phase = "decoding"
    /\ codec.bytes = <<128, 128, 1>>

(* C13: for a text of at most 65535 UTF-8 bytes, encode_string gives the     *)
(* byte length in 2 bytes big-endian and then the UTF-8 bytes; decoding    *)
(* (2 length bytes big-endian, then that many bytes as UTF-8) gives the    *)
(* text back and reads exactly 2 + len(utf8(text)) bytes of the stream.    *)
C13_StringRoundTrip ==
    (codec.op = "string" /\ Len(EncodeUtf8(codec.text)) <= 65535) =>
        LET data == EncodeUtf8(codec.text)
            b == codec.bytes
        IN  /\ codec.phase \in {"encoded", "decoded"} =>
                /\ b = <<Len(data) \div 256, Len(data) % 256>> \o data \o Trailer
                /\ \A i \in 1..Len(b) : b[i] \in 0..255
            /\ codec.phase = "decoded" =>
                /\ codec.result = codec.text
                /\ codec.pos = 2 + Len(data)

\* A text of 128 two-byte characters (prefix 01 00) has been encoded and decoded.
C13_Witness ==
    /\ codec.op = "string"
    /\ codec.phase = "decoded"
    /\ codec.text = Repeat(233, 128)
    /\ SubSeq(codec.bytes, 1, 4) = <<1, 0, 195, 169>>
    /\ codec.pos = 258

----------------------------------------------------------------------------
(* read_packet on streams that hold a written frame and more.              *)

\* Payload lengths tried: remaining lengths of one and of two bytes.
PayloadLengths == {0, 1, 2, 127, 128, 129, 300}

\* A payload of n bytes, each byte telling its position.
PayloadOf(n) == [i \in 1..n |-> (i * 7) % 256]

FrameHeaders == {16, 31, 48, 128}

\* What the stream holds after the frame: nothing, a handshake, a cut frame.
Followers == {<<>>, Frame(128, <<0, 7>>) \o Frame(48, <<>>), <<128>>}

FrameScripts ==
    {Frame(h, PayloadOf(n)) \o rest :
        h \in FrameHeaders, n \in PayloadLengths, rest \in Followers}

\* One connection whose stream holds a whole script, then an end of stream.
NextFrame ==
    \/ StartServer
    \/ Accept(1, FrameScripts)
    \/ ClientSendAll(1)
    \/ PeerReset(1)
    \/ Handler(1)

FrameSpec == Init /\ [][NextFrame]_vars

\* The bytes of connection c that read_packet has taken from the stream.
Consumed(c) == client[c].sent - Len(reader[c].buffer)

(* C14: when the stream holds header h, the encoded length of payload p, p  *)
(* and further bytes, the first read_packet returns (h, p), with p as long *)
(* as the decoded remaining length, having taken exactly 1 + len(varint) + *)
(* len(p) bytes; the next read_packet returns the frame that follows.      *)
C14_Step(c) ==
    Len(task'[c].frames) > Len(task[c].frames) =>
        \A h \in FrameHeaders, n \in PayloadLengths, rest \in Followers :
            client[c].script = Frame(h, PayloadOf(n)) \o rest =>
                /\ Len(task[c].frames) = 0 =>
                    /\ task'[c].frames = <<[header |-> h, payload |-> PayloadOf(n)]>>
                    /\ task[c].remaining = n
                    /\ Consumed(c)' = 1 + Len(encode_remaining_length(n)) + n
                /\ Len(task[c].frames) = 1 =>
                    /\ rest = Frame(128, <<0, 7>>) \o Frame(48, <<>>)
                    /\ task'[c].frames[2] = [header |-> 128, payload |-> <<0, 7>>]
                    /\ Consumed(c)' = 1 + Len(encode_remaining_length(n)) + n + 4

C14_FrameAgreement == [][\A c \in Conns : C14_Step(c)]_vars

\* A frame with a 300-byte payload (remaining length AC 02) and the frame after
\* it have been read.
C14_Witness ==
    \E c \in Conns :
        /\ Len(task[c].frames) >= 2
        /\ Len(task[c].frames[1].payload) = 300
        /\ SubSeq(client[c].script, 1, 3) = <<31, 172, 2>>
        /\ task[c].frames[2].header = 128

(* C15: with no transport error, a read_packet that meets the end of the    *)
(* stream before the bytes it asks for (header byte, length byte or        *)
(* payload) raises IncompleteReadError and returns no frame; it is the     *)
(* only way a read_packet ends without a frame; the RuntimeError of a      *)
(* frame of the wrong type is raised only once a whole frame was returned. *)
C15_Step(c) ==
    LET t == task[c]
        u == task'[c]
        r == reader[c]
        short == r.eof /\ Len(r.buffer) < Wanted(t) /\ Wanted(t) > 0
    IN  (t.pc \in Reading /\ r.exception = "none" /\ reader'[c].exception = "none"
            /\ u # t) =>
            /\ short =>
                /\ u.raised = "IncompleteReadError"
                /\ u.frames = t.frames
                /\ u.pc = "closing"
            /\ (u.frames = t.frames /\ u.pc # t.pc) => (short /\ u.raised = "IncompleteReadError")
            /\ u.raised = "RuntimeError" => Len(u.frames) = Len(t.frames) + 1
            /\ u.raised = "IncompleteReadError" => (short /\ u.frames = t.frames)

C15_EndOfStream == [][\A c \in Conns : C15_Step(c)]_vars

\* The stream ended inside the payload of the second frame (header 82, remaining
\* length 3): no second frame was returned.
C15_Witness ==
    \E c \in Conns :
        /\ task[c].pc = "CLOSED"
        /\ task[c].raised = "IncompleteReadError"
        /\ Len(task[c].frames) = 1
        /\ task[c].first = 130
        /\ task[c].remaining = 3
        /\ client[c].sent = 6

(* C16: connection handlers are independent. Every step of the server     *)
(* changes the streams and the task of at most one connection, whatever    *)
(* the others are doing, and a connection that was not reset ends with     *)
(* the output and the final state that its own input alone determines.     *)
ConnState(c) == <<client[c], reader[c], writer[c], task[c]>>

\* What handle_client writes and how it ends on each input of ServerScripts when
\* the whole input arrives and the peer then closes.
Alone(script) ==
    IF script = Frame(16, <<>>) \o Frame(128, <<0, 7>>) \o Frame(48, <<>>)
    THEN [out |-> CONNACK \o SUBACK(7) \o PUBLISH, frames |-> 3, raised |-> "none"]
    ELSE IF script = Frame(128, <<0, 7>>)
    THEN [out |-> <<>>, frames |-> 1, raised |-> "RuntimeError"]
    ELSE [out |-> <<>>, frames |-> 0, raised |-> "IncompleteReadError"]

C16_Outcome(c) ==
    (task[c].pc = "CLOSED" /\ reader[c].exception = "none") =>
        /\ writer[c].out = Alone(client[c].script).out
        /\ writer[c].closes = 1
        /\ Len(task[c].frames) = Alone(client[c].script).frames
        /\ task[c].raised = Alone(client[c].script).raised
        /\ task[c].escaped = "none"

C16_Step ==
    /\ \E c \in Conns : \A d \in Conns \ {c} : ConnState(d)' = ConnState(d)
    /\ \A c \in Conns : C16_Outcome(c)'
    /\ \A c, d \in Conns :
        (/\ client'[c].script = client'[d].script
         /\ task'[c].pc = "CLOSED" /\ task'[d].pc = "CLOSED"
         /\ reader'[c].exception = "none" /\ reader'[d].exception = "none") =>
            /\ writer'[c] = writer'[d]
            /\ task'[c] = task'[d]

C16_Independent == [][C16_Step]_vars

\* Two handshakes in progress at once: the first connection has been sent its
\* PUBLISH while the second has only been sent its CONNACK.
C16_Witness ==
    \E c, d \in Conns :
        /\ c # d
        /\ task[c].pc = "PUBLISHING"
        /\ writer[c].out = CONNACK \o SUBACK(7) \o PUBLISH
        /\ task[d].pc = "drain_connack"
        /\ writer[d].out = CONNACK

----------------------------------------------------------------------------
(* The entry point: main() on every command line of Argvs.                 *)

Name == <<"m", "q", "t", "t">>

DigitChars == <<"0", "1", "2", "3", "4", "5", "6", "7", "8", "9">>

IsDigit(ch) == \E i \in 1..10 : DigitChars[i] = ch

DigitValue(ch) == (CHOOSE i \in 1..10 : DigitChars[i] = ch) - 1

RECURSIVE DigitsValue(_)
DigitsValue(chars) ==
    IF chars = <<>> THEN 0
    ELSE LET front == SubSeq(chars, 1, Len(chars) - 1)
             last == chars[Len(chars)]
         IN  IF last = "_" THEN DigitsValue(front)
             ELSE 10 * DigitsValue(front) + DigitValue(last)

\* int(text) in base 10: surrounding blanks are dropped, one sign may lead, and the
\* digits may be separated by single underscores. ok is FALSE where int raises
\* ValueError.
int(text) ==
    LET inked == {i \in 1..Len(text) : text[i] # " "}
        first == CHOOSE i \in inked : \A j \in inked : i <= j
        last == CHOOSE i \in inked : \A j \in inked : i >= j
        body == IF inked = {} THEN <<>> ELSE SubSeq(text, first, last)
        signed == body # <<>> /\ body[1] \in {"+", "-"}
        digits == IF signed THEN Tail(body) ELSE body
        ok == /\ digits # <<>>
              /\ \A i \in 1..Len(digits) : IsDigit(digits[i]) \/ digits[i] = "_"
              /\ digits[1] # "_"
              /\ digits[Len(digits)] # "_"
              /\ \A i \in 1..(Len(digits) - 1) : ~(digits[i] = "_" /\ digits[i + 1] = "_")
        value == IF ~ok THEN 0
                 ELSE IF signed /\ body[1] = "-" THEN 0 - DigitsValue(digits)
                 ELSE DigitsValue(digits)
    IN  [ok |-> ok, value |-> value]

USAGE == "Usage: python mqtt_broker.py <port>"

\* What the interpreter prints for an exception that leaves main().
Traceback(exception) == "Traceback (most recent call last): " \o exception

PortTexts ==
    { <<"1", "8", "8", "3">>, <<"0">>, <<" ", "8", "0", " ">>, <<"+", "8", "0">>,
      <<"1", "_", "0">>, <<"0", "0", "7">>,
      <<"7", "0", "0", "0", "0">>, <<"-", "1">>,
      <<"a", "b", "c">>, <<>>, <<"1", "8", ".", "5">>, <<"0", "x", "1", "0">>,
      <<"1", "_", "_", "0">>, <<"_", "1">>, <<"8", "0", " ", "8", "0">>, <<"-">> }

Argvs ==
    {<<Name>>, <<Name, <<"1", "8", "8", "3">>, <<"x">>>>}
        \cup {<<Name, text>> : text \in PortTexts}

InitMain ==
    /\ listener = "none"
    /\ NoConnections
    /\ proc \in {[argv |-> a, pc |-> "main", port |-> 0, stderr |-> "", exit |-> -1] :
                    a \in Argvs}
    /\ codec = IdleCodec

\* main(): sys.argv[0] is argv[1] here and sys.argv[1] is argv[2].
Main ==
    /\ proc.pc = "main"
    /\ IF Len(proc.argv) # 2
       THEN /\ proc' = [proc EXCEPT !.pc = "exited", !.stderr = USAGE, !.exit = 1]
            /\ UNCHANGED listener
       ELSE IF ~int(proc.argv[2]).ok
       THEN /\ proc' = [proc EXCEPT !.pc = "exited", !.stderr = Traceback("ValueError"),
                                    !.exit = 1]
            /\ UNCHANGED listener
       ELSE /\ proc' = [proc EXCEPT !.pc = "run_server", !.port = int(proc.argv[2]).value]
            /\ listener' = "starting"
    /\ UNCHANGED <<codec, client, reader, writer, task>>

\* asyncio.start_server on a port that is no port number: the OverflowError of
\* bind() leaves run_server and main().
StartServerFails ==
    /\ listener = "starting"
    /\ proc.port \notin 0..65535
    /\ listener' = "failed"
    /\ proc' = [proc EXCEPT !.pc = "exited", !.stderr = Traceback("OverflowError"),
                            !.exit = 1]
    /\ UNCHANGED <<codec, client, reader, writer, task>>

NextMain ==
    \/ Main
    \/ StartServerFails
    \/ Next

MainSpec == InitMain /\ [][NextMain]_vars

(* C17, as stated: a command line without a port and a command line whose  *)
(* port is no integer both end with the usage message on the error stream, *)
(* exit code 1 and no listener.                                            *)
UsageError(argv) == Len(argv) < 2 \/ (Len(argv) = 2 /\ ~int(argv[2]).ok)

C17_AsStated ==
    (UsageError(proc.argv) /\ proc.pc # "main") =>
        /\ proc.pc = "exited"
        /\ proc.stderr = USAGE
        /\ proc.exit = 1
        /\ listener = "none"

\* What the code does hold to on those command lines: something is printed on the
\* error stream, the exit code is 1 and the listener is never started.
C17_ExitOne ==
    (UsageError(proc.argv) /\ proc.pc # "main") =>
        /\ proc.pc = "exited"
        /\ proc.stderr # ""
        /\ proc.exit = 1
        /\ listener = "none"

----------------------------------------------------------------------------
(* Termination: the handler is scheduled fairly and a peer that has not    *)
(* closed its side eventually does.                                        *)

LiveSpec ==
    /\ Init
    /\ [][Next]_vars
    /\ \A c \in Conns : WF_vars(Handler(c)) /\ WF_vars(ClientClose(c))

(* C18: every accepted connection's handler reaches CLOSED; while it is    *)
(* open it can always take a step unless it is inside a read_packet whose  *)
(* readexactly is waiting for bytes (drain never waits on these 56 bytes   *)
(* of output), and no step takes it back to an earlier state.              *)
Blocked(c) == task[c].pc \notin {"idle", "CLOSED"} /\ ~ENABLED Handler(c)

WaitingForBytes(c) ==
    /\ task[c].pc \in Reading
    /\ reader[c].exception = "none"
    /\ ~reader[c].eof
    /\ Len(reader[c].buffer) < Wanted(task[c])

C18_Terminates ==
    /\ \A c \in Conns : (task[c].pc # "idle") ~> (task[c].pc = "CLOSED")
    /\ [](\A c \in Conns : Blocked(c) => WaitingForBytes(c))
    /\ [][\A c \in Conns : Rank(task'[c].pc) >= Rank(task[c].pc)]_vars

\* The peer went away after the handshake without publishing: the handler was
\* waiting in its last read and still closed.
C18_Witness ==
    \E c \in Conns :
        /\ task[c].pc = "CLOSED"
        /\ reader[c].eof
        /\ reader[c].exception = "none"
        /\ Len(task[c].frames) = 2
        /\ task[c].raised = "IncompleteReadError"
        /\ writer[c].out = CONNACK \o SUBACK(7) \o PUBLISH
        /\ writer[c].closes = 1

----------------------------------------------------------------------------
(* Two runs side by side: connections 1 and 2 with inputs that differ in   *)
(* the bytes the handshake does not look at.                               *)

F(header, payload) == [header |-> header, payload |-> payload]

HyperInputs ==
    { \* CONNECT, SUBSCRIBE id 0x0007, a last frame
      <<F(16, <<>>), F(128, <<0, 7>>), F(48, <<>>)>>,
      <<F(31, <<170>>), F(130, <<0, 7, 85>>), F(192, <<9>>)>>,
      <<F(16, <<1, 2>>), F(143, <<0, 7>>), F(224, <<>>)>>,
      \* CONNECT, SUBSCRIBE id 0x0100, a last frame
      <<F(16, <<>>), F(128, <<1, 0>>), F(48, <<0, 7>>)>>,
      <<F(18, <<4>>), F(128, <<1, 0, 0, 7>>), F(62, <<1>>)>>,
      \* CONNECT, SUBSCRIBE id 0x0007, nothing after it
      <<F(16, <<>>), F(128, <<0, 7>>)>>,
      <<F(21, <<7>>), F(136, <<0, 7, 1>>)>>,
      \* PUBLISH where SUBSCRIBE is expected
      <<F(16, <<>>), F(48, <<0, 7>>)>>,
      <<F(29, <<3>>), F(52, <<>>)>>,
      \* SUBSCRIBE where CONNECT is expected
      <<F(128, <<0, 7>>)>>,
      <<F(143, <<9>>)>> }

RECURSIVE Wire(_)
Wire(input) ==
    IF input = <<>> THEN <<>>
    ELSE Frame(input[1].header, input[1].payload) \o Wire(Tail(input))

HyperScripts == {Wire(input) : input \in HyperInputs}

Runs == {1, 2}

NextHyper ==
    \/ StartServer
    \/ \E c \in Runs :
        \/ Accept(c, HyperScripts)
        \/ ClientSendAll(c)
        \/ PeerReset(c)
        \/ Handler(c)

HyperSpec == Init /\ [][NextHyper]_vars

(* C19: two runs whose inputs have the same number of frames, the same     *)
(* control types in the first two frames and, where the second frame is a  *)
(* SUBSCRIBE, the same bytes 0-1 of its payload, write the same bytes and  *)
(* end alike, whatever the flag nibbles, the CONNECT payload, the rest of  *)
(* the SUBSCRIBE payload and the last frame are.                           *)
InputOf(c) == CHOOSE input \in HyperInputs : Wire(input) = client[c].script

Key(input) ==
    [count |-> Len(input),
     types |-> [i \in 1..(IF Len(input) < 2 THEN Len(input) ELSE 2) |->
                    ControlType(input[i].header)],
     id |-> IF Len(input) >= 2 /\ ControlType(input[2].header) = 8
            THEN SubSeq(input[2].payload, 1, 2) ELSE <<>>]

Ended(c) == task[c].pc = "CLOSED" /\ reader[c].exception = "none"

C19_OutputDependsOnKey ==
    (/\ Ended(1) /\ Ended(2)
     /\ Key(InputOf(1)) = Key(InputOf(2))) =>
        /\ writer[1] = writer[2]
        /\ task[1].pc = task[2].pc
        /\ task[1].raised = task[2].raised
        /\ task[1].escaped = task[2].escaped
        /\ Len(task[1].frames) = Len(task[2].frames)

\* Two whole handshakes with packet id 0x0007 that differ in every byte the
\* handler does not look at, the type of the last frame included.
C19_Witness ==
    /\ Ended(1) /\ Ended(2)
    /\ InputOf(1) = <<F(16, <<>>), F(128, <<0, 7>>), F(48, <<>>)>>
    /\ InputOf(2) = <<F(31, <<170>>), F(130, <<0, 7, 85>>), F(192, <<9>>)>>
    /\ writer[1].out = CONNACK \o SUBACK(7) \o PUBLISH
    /\ writer[2].out = writer[1].out

----------------------------------------------------------------------------
(* The same bytes in two deliveries: connections 1 and 2 receive their     *)
(* scripts in arrivals of any sizes, interleaved with the handler's reads. *)

ChunkScripts ==
    { Frame(16, <<>>) \o Frame(128, <<0, 7>>) \o Frame(48, <<5>>),
      Frame(16, <<>>) \o Frame(48, <<>>) }

NextChunk ==
    \/ StartServer
    \/ \E c \in Runs :
        \/ Accept(c, ChunkScripts)
        \/ ClientSend(c, AnyChunk(c))
        \/ ClientClose(c)
        \/ PeerReset(c)
        \/ Handler(c)

ChunkSpec == Init /\ [][NextChunk]_vars

(* C20: a read_packet that lacks bytes of an open stream waits for them,   *)
(* and two handlers that were delivered the same bytes, in whatever        *)
(* arrivals, end with the same frames, the same output and the same final  *)
(* state.                                                                  *)
Delivered(c) == SubSeq(client[c].script, 1, client[c].sent)

C20_ChunkingInvisible ==
    /\ \A c \in Runs : WaitingForBytes(c) => ~ENABLED Handler(c)
    /\ (/\ Ended(1) /\ Ended(2)
        /\ Delivered(1) = Delivered(2)) =>
            /\ task[1] = task[2]
            /\ writer[1] = writer[2]

\* Both handlers went through the whole handshake on the same nine bytes; the
\* first peer has closed its side, the second has not.
C20_Witness ==
    /\ Ended(1) /\ Ended(2)
    /\ Delivered(1) = Frame(16, <<>>) \o Frame(128, <<0, 7>>) \o Frame(48, <<5>>)
    /\ Delivered(2) = Delivered(1)
    /\ reader[1].eof /\ ~reader[2].eof
    /\ Len(task[1].frames) = 3
    /\ writer[2].out = CONNACK \o SUBACK(7) \o PUBLISH

====
